---- MODULE Spec2Model ----
(***************************************************************************)
(* Treasury yield analyzer: the freshness policy (should_regenerate), the  *)
(* CLI orchestrator (treas_analyzer.main.main) and the web handlers        *)
(* (webapp.app index, invest, ladder) over one output directory.           *)
(*                                                                         *)
(* One output directory and one period (year-month) are modelled.  A table *)
(* (DataFrame) is a sequence of rows, a row holding a date and, for every  *)
(* maturity of the model, a value: NaN (absent) or a yield.  Three of the  *)
(* twelve maturities are modelled.  Fractions are exact (numerator and     *)
(* denominator), where the program computes in floating point.  The clock  *)
(* is the US Eastern wall clock, sampled at the times of day in            *)
(* TimesOfDay.                                                             *)
(*                                                                         *)
(* The pure functions (parse_feed, build_ytd_df, summarize) are also       *)
(* applied on their own to bounded sets of inputs: the variable arg holds  *)
(* the input and result what the function returned.                        *)
(***************************************************************************)
EXTENDS Integers, Sequences, FiniteSets, TLC

VARIABLES now, csv, p_all, p_facets, p_ytd, marker, cache, cloud_run, policy, run,
          arg, result

vars == <<now, csv, p_all, p_facets, p_ytd, marker, cache, cloud_run, policy, run,
          arg, result>>

(***************************************************************************)
(* Bounds of the model.                                                    *)
(***************************************************************************)
MaxDay == 1

\* The longest feed given to parse_feed on its own.
MaxEntries == 2

(***************************************************************************)
(* Program constants.                                                      *)
(***************************************************************************)
NaN == -1
CacheTtlSeconds == 1800
CacheMaxEntries == 10
MinAmount == 500
MaxAmount == 10000000

Period == "202501"

Days == 0..MaxDay

\* The times of day at which the handlers run: either side of the 12:00
\* cutoff, and one cache lifetime after it.
TimesOfDay ==
    { [hour |-> 11, minute |-> 59], [hour |-> 12, minute |-> 0],
      [hour |-> 12, minute |-> 30] }

\* The times of day the freshness policy is evaluated at on its own.
PolicyTimesOfDay ==
    TimesOfDay \cup { [hour |-> 0, minute |-> 0], [hour |-> 11, minute |-> 0],
                      [hour |-> 12, minute |-> 1], [hour |-> 13, minute |-> 0],
                      [hour |-> 23, minute |-> 59] }

At(D, T) == { [day |-> d, hour |-> t.hour, minute |-> t.minute] : d \in D, t \in T }

Clock == At(Days, TimesOfDay)

PolicyClock == At(Days, PolicyTimesOfDay)

\* Two distinct yields (percent): enough to tell one table from another.
Yields == {1, 2}

Values == {NaN} \cup Yields

\* The text of a yield field of a feed entry, and of a CSV cell: empty (or the
\* element missing), or the decimal text of a yield.
Cells == {<<>>} \cup { <<v>> : v \in Yields }

\* MATURITY_ORDER (display order) and MATURITY_FIELDS: the labels "1M", "1Y"
\* and "10Y" of the twelve, with their years to maturity in twelfths.
MATURITY_ORDER == <<"1M", "1Y", "10Y">>

Labels == { MATURITY_ORDER[i] : i \in DOMAIN MATURITY_ORDER }

MATURITY_FIELDS == ("1M" :> 1) @@ ("1Y" :> 12) @@ ("10Y" :> 120)

\* The characters of a label (code points), for the comparison of strings.
LabelText == ("1M" :> <<49, 77>>) @@ ("1Y" :> <<49, 89>>) @@ ("10Y" :> <<49, 48, 89>>)

\* The text of the NEW_DATE element of a feed entry.
\*   kind "none"     : no element, or an element without text
\*   kind "blank"    : white space only
\*   kind "invalid"  : text that is not a date ("n/a")
\*   kind "iso"      : the ISO date or date-time of day `day`
\*   kind "prefixed" : the ISO date of day `day` in the first ten characters,
\*                     followed by text datetime.fromisoformat rejects
NoDateText == { [kind |-> k, day |-> 0] : k \in {"none", "blank", "invalid"} }

DateTexts(D) == NoDateText \cup { [kind |-> k, day |-> d] : k \in {"iso", "prefixed"}, d \in D }

\* A feed entry: whether it has a properties element, its date text and the
\* text of its yield fields.
Entry(props, date, y) == [props |-> props, date |-> date, y |-> y]

\* The entry dated `day` whose only yield field with text is the first one.
DatedEntry(day, c) ==
    Entry(TRUE, [kind |-> "iso", day |-> day],
          [l \in Labels |-> IF l = MATURITY_ORDER[1] THEN c ELSE <<>>])

\* What the feed server returns for the period: no entry at all, or the dated
\* entry of the one day published so far.
Feeds == {<<>>} \cup { <<DatedEntry(1, c)>> : c \in Cells }

\* The sequence with the elements of f, each evaluated once.
Tuple(f) == <<>> \o f

(***************************************************************************)
(* Time.                                                                   *)
(***************************************************************************)
\* dt.time comparison: lexicographic on (hour, minute).
TimeGE(t, h, m) == t.hour > h \/ (t.hour = h /\ t.minute >= m)

\* time.time(): seconds on the same clock.
Seconds(t) == ((t.day * 24 + t.hour) * 60 + t.minute) * 60

Later(t, u) == Seconds(u) > Seconds(t)

(***************************************************************************)
(* The freshness marker file .generated_<period>.json.                     *)
(*   kind "absent"  : no file                                              *)
(*   kind "garbage" : a file that is not JSON (or not a JSON object)       *)
(*   kind "no_ymd"  : JSON without (or with an empty) last_generated_ymd   *)
(*   kind "bad_ymd" : last_generated_ymd is not an ISO date                *)
(*   kind "date"    : last_generated_ymd is the ISO date of day ymd        *)
(***************************************************************************)
MarkerAbsent == [kind |-> "absent", ymd |-> 0]

MarkerStates ==
    { [kind |-> k, ymd |-> 0] : k \in {"absent", "garbage", "no_ymd", "bad_ymd"} }
    \cup { [kind |-> "date", ymd |-> d] : d \in Days }

NoDate == [some |-> FALSE, day |-> 0]

\* load_last_generated_ymd: every failure of the read is caught and gives None.
LoadLastGeneratedYmd(m) ==
    IF m.kind = "absent" THEN [raised |-> FALSE, value |-> NoDate]
    ELSE IF m.kind = "garbage" THEN [raised |-> FALSE, value |-> NoDate]
    ELSE IF m.kind = "no_ymd" THEN [raised |-> FALSE, value |-> NoDate]
    ELSE IF m.kind = "bad_ymd" THEN [raised |-> FALSE, value |-> NoDate]
    ELSE [raised |-> FALSE, value |-> [some |-> TRUE, day |-> m.ymd]]

\* write_generated_marker: the payload's date is today's ET date.  The second
\* field (last_generated_et) is never read back and is left out.
WriteGeneratedMarker(t) == [kind |-> "date", ymd |-> t.day]

(***************************************************************************)
(* should_regenerate(out_dir, year_month, files_exist)                     *)
(***************************************************************************)
ShouldRegenerateNoonExclusive(m, t, files_exist) ==
    IF ~files_exist THEN [raised |-> FALSE, value |-> TRUE]
    ELSE LET last == LoadLastGeneratedYmd(m)
         IN  IF last.raised THEN [raised |-> TRUE, value |-> FALSE]
             ELSE IF last.value.some /\ last.value.day = t.day
                  THEN [raised |-> FALSE, value |-> FALSE]
             ELSE IF TimeGE(t, 12, 1) THEN [raised |-> FALSE, value |-> TRUE]
             ELSE [raised |-> FALSE, value |-> FALSE]

ShouldRegenerateMarkerFirst(m, t, files_exist) ==
    LET last == LoadLastGeneratedYmd(m)
    IN  IF last.value.some /\ last.value.day = t.day
        THEN [raised |-> FALSE, value |-> FALSE]
        ELSE IF ~files_exist THEN [raised |-> FALSE, value |-> TRUE]
        ELSE [raised |-> FALSE, value |-> TimeGE(t, 12, 0)]

ShouldRegenerateIgnoreMarker(m, t, files_exist) ==
    IF ~files_exist THEN [raised |-> FALSE, value |-> TRUE]
    ELSE [raised |-> FALSE, value |-> TimeGE(t, 12, 0)]

ShouldRegenerate(m, t, files_exist) ==
    IF ~files_exist THEN [raised |-> FALSE, value |-> TRUE]
    ELSE LET last == LoadLastGeneratedYmd(m)
         IN  IF last.raised THEN [raised |-> TRUE, value |-> FALSE]
             ELSE IF last.value.some /\ last.value.day = t.day
                  THEN [raised |-> FALSE, value |-> FALSE]
             ELSE IF TimeGE(t, 12, 0) THEN [raised |-> FALSE, value |-> TRUE]
             ELSE [raised |-> FALSE, value |-> FALSE]

(***************************************************************************)
(* The external collaborators of one run: what the network, the feed       *)
(* server and the plotting library do during that run.                     *)
(*   net  : the fetch of the period's feed with certificate verification   *)
(*          ("ok", "error": network error, timeout or HTTP error,          *)
(*           "ssl": requests.exceptions.SSLError)                          *)
(*   net2 : the fetch without verification (index's fallback)              *)
(*   feed : the entries the server returns                                 *)
(*   plot : plot_all succeeds                                              *)
(*   ytd  : the year-to-date block ("ok", "fetch_fail": no month could be  *)
(*          fetched, "plot_fail": plot_ytd raises)                         *)
(***************************************************************************)
AllEnvs ==
    [net : {"ok", "error", "ssl"}, net2 : {"ok", "error"}, feed : Feeds,
     plot : BOOLEAN, ytd : {"ok", "fetch_fail", "plot_fail"}]

\* A field that no handler can read in an environment is fixed: the second
\* fetch exists only after an SSL error, a feed only when a fetch succeeds,
\* plot_all runs only on a parsed table, and the year-to-date block of a
\* regeneration only after plot_all.
Envs ==
    { e \in AllEnvs :
        /\ e.net # "ssl" => e.net2 = "error"
        /\ (e.net = "error" \/ (e.net = "ssl" /\ e.net2 = "error")) => e.feed = <<>>
        /\ e.feed = <<>> => e.plot /\ e.ytd = "ok"
        /\ ~e.plot => e.ytd = "ok" }

\* main treats an SSL error as any other exception; invest and ladder too, and
\* they neither plot nor build the year-to-date table.
MainEnvs == { e \in Envs : e.net # "ssl" }

MinimalEnvs == { e \in MainEnvs : e.plot /\ e.ytd = "ok" }

\* fetch_xml: the response text, or an exception.
FetchXml(outcome, feed) ==
    IF outcome = "ok" THEN [ok |-> TRUE, ssl |-> FALSE, text |-> feed]
    ELSE [ok |-> FALSE, ssl |-> (outcome = "ssl"), text |-> <<>>]

\* Lines 176-184: a field that is missing or empty is recorded as absent
\* (None), not as zero.
ParseYield(c) == IF Len(c) = 0 THEN NaN ELSE c[1]

\* df.sort_values("Date"): ascending by date.  Rows of equal date keep their
\* order (the sort of a short column of date objects is an insertion sort).
RECURSIVE InsertByDate(_, _)
InsertByDate(sorted, row) ==
    IF Len(sorted) = 0 THEN <<row>>
    ELSE IF sorted[Len(sorted)].Date <= row.Date THEN Append(sorted, row)
    ELSE Append(InsertByDate(SubSeq(sorted, 1, Len(sorted) - 1), row), sorted[Len(sorted)])

RECURSIVE SortValuesByDate(_)
SortValuesByDate(rows) ==
    IF Len(rows) = 0 THEN <<>>
    ELSE InsertByDate(SortValuesByDate(SubSeq(rows, 1, Len(rows) - 1)), rows[Len(rows)])

\* Lines 160-186, the loop over the entries.  An entry without properties, or
\* without a NEW_DATE text, is skipped.  The date text is parsed by
\* datetime.fromisoformat and, when that raises, by date.fromisoformat on its
\* first ten characters, outside any try: text that holds no date there
\* raises ValueError out of parse_feed.
RECURSIVE ParseEntries(_)
ParseEntries(entries) ==
    IF Len(entries) = 0 THEN [raised |-> FALSE, rows |-> <<>>]
    ELSE LET e == entries[Len(entries)]
             before == ParseEntries(SubSeq(entries, 1, Len(entries) - 1))
         IN  IF before.raised THEN before
             ELSE IF ~e.props THEN before
             ELSE IF e.date.kind = "none" THEN before
             ELSE IF e.date.kind \in {"blank", "invalid"}
             THEN [raised |-> TRUE, rows |-> <<>>]
             ELSE [raised |-> FALSE,
                   rows |-> Append(before.rows,
                                   [Date |-> e.date.day,
                                    y |-> [l \in Labels |-> ParseYield(e.y[l])]])]

\* parse_feed: one row per dated entry, sorted by date; RuntimeError when no
\* row was parsed.
ParseFeed(xml_text) ==
    LET r == ParseEntries(xml_text)
    IN  IF r.raised THEN [ok |-> FALSE, error |-> "ValueError", df |-> <<>>]
        ELSE IF Len(r.rows) = 0 THEN [ok |-> FALSE, error |-> "RuntimeError", df |-> <<>>]
        ELSE [ok |-> TRUE, error |-> "", df |-> SortValuesByDate(r.rows)]

\* df[label]
Column(df, label) == Tuple([i \in 1..Len(df) |-> df[i].y[label]])

\* series.dropna()
DropNa(series) == SelectSeq(series, LAMBDA v : v # NaN)

(***************************************************************************)
(* Exact fractions n/d, d > 0, in lowest terms.                            *)
(***************************************************************************)
Abs(x) == IF x < 0 THEN -x ELSE x

RECURSIVE GCD(_, _)
GCD(a, b) == IF b = 0 THEN a ELSE GCD(b, a % b)

Rat(n, d) ==
    IF d = 1 THEN [n |-> n, d |-> 1]
    ELSE LET g == GCD(Abs(n), d) IN [n |-> n \div g, d |-> d \div g]

Zero == Rat(0, 1)

RatLess(a, b) == a.n * b.d < b.n * a.d

RatEq(a, b) == a.n * b.d = b.n * a.d

RatAdd(a, b) == Rat(a.n * b.d + b.n * a.d, a.d * b.d)

RatMul(a, b) == Rat(a.n * b.n, a.d * b.d)

RatMax(a, b) == IF RatLess(a, b) THEN b ELSE a

RatMin(a, b) == IF RatLess(b, a) THEN b ELSE a

RECURSIVE Sum(_)
Sum(seq) == IF Len(seq) = 0 THEN 0 ELSE Sum(SubSeq(seq, 1, Len(seq) - 1)) + seq[Len(seq)]

(***************************************************************************)
(* compute_trend(dates, values): the least-squares line through the        *)
(* present points, None with fewer than three of them.  The slope is per   *)
(* day; r2 = 1 - ss_res/ss_tot is, for the fitted line, sxy^2/(sxx*syy).   *)
(* Dates are day numbers (the fit does not depend on the origin of the     *)
(* ordinals).  Points that all share one date (sxx = 0) have a fitted      *)
(* slope below 10^-5, taken as 0.                                          *)
(***************************************************************************)
NoTrend == [some |-> FALSE, slope_bps_per_month |-> Zero, r2 |-> Zero]

FitLine(n, x, y) ==
    LET sx  == Sum(x)
        sy  == Sum(y)
        sxx == n * Sum(Tuple([i \in 1..n |-> x[i] * x[i]])) - sx * sx
        sxy == n * Sum(Tuple([i \in 1..n |-> x[i] * y[i]])) - sx * sy
        syy == n * Sum(Tuple([i \in 1..n |-> y[i] * y[i]])) - sy * sy
    IN  IF n < 3 THEN NoTrend
        ELSE [some |-> TRUE,
              slope_bps_per_month |-> IF sxx = 0 THEN Zero ELSE Rat(sxy * 30 * 100, sxx),
              r2 |-> IF syy > 0 /\ sxx > 0 THEN Rat(sxy * sxy, sxx * syy) ELSE Zero]

\* The dates and the values of the points, in the order of the table.
TrendOfPoints(pts, label) ==
    FitLine(Len(pts), Tuple([i \in 1..Len(pts) |-> pts[i].Date]),
            Tuple([i \in 1..Len(pts) |-> pts[i].y[label]]))

ComputeTrend(df, label) == TrendOfPoints(SelectSeq(df, LAMBDA r : r.y[label] # NaN), label)

\* Lines 238-242: the trend adjustment of the value score.
TrendEffect(tr) ==
    IF ~tr.some THEN Zero
    ELSE LET adj == RatMul(tr.slope_bps_per_month, RatMax(tr.r2, Rat(3, 10)))
             adj_pct == RatMul(adj, Rat(1, 100))
         IN  RatAdd(RatMul(Rat(-1, 2), RatMax(adj_pct, Zero)),
                    RatMul(Rat(1, 4), RatMin(adj_pct, Zero)))

\* Lines 222-255: the metrics of one maturity.  The intensity
\* current / sqrt(years) is kept as its square, 12 * current^2 / twelfths,
\* which orders the rows alike (no yield of the model is negative).
MetricsOf(label, current, tr) ==
    [Maturity |-> label,
     Years |-> MATURITY_FIELDS[label],
     CurrentYieldPct |-> Rat(current, 1),
     IntensitySquared |-> Rat(12 * current * current, MATURITY_FIELDS[label]),
     HasTrend |-> tr.some,
     TrendBpsPerMonth |-> tr.slope_bps_per_month,
     TrendR2 |-> tr.r2,
     ValueScore |-> RatAdd(Rat(current, 1), TrendEffect(tr))]

\* series.dropna().iloc[-1]
LastPresent(present) == present[Len(present)]

MetricsRow(df, label) ==
    MetricsOf(label, LastPresent(DropNa(Column(df, label))), ComputeTrend(df, label))

\* s.rank(ascending=False, method=...): the values are put in descending
\* order and numbered from 1; the values of a group of equal ones share a
\* number of the group, the lowest with method="min".
RECURSIVE InsertDesc(_, _)
InsertDesc(sorted, v) ==
    IF Len(sorted) = 0 THEN <<v>>
    ELSE IF ~RatLess(sorted[Len(sorted)], v) THEN Append(sorted, v)
    ELSE Append(InsertDesc(SubSeq(sorted, 1, Len(sorted) - 1), v), sorted[Len(sorted)])

RECURSIVE SortDesc(_)
SortDesc(s) ==
    IF Len(s) = 0 THEN <<>>
    ELSE InsertDesc(SortDesc(SubSeq(s, 1, Len(s) - 1)), s[Len(s)])

SetMin(S) == CHOOSE x \in S : \A y \in S : x <= y

SetMax(S) == CHOOSE x \in S : \A y \in S : x >= y

RankDescMax(s) ==
    LET sorted == SortDesc(s)
    IN  Tuple([i \in 1..Len(s) |-> SetMax({ j \in 1..Len(s) : RatEq(sorted[j], s[i]) })])

RankDesc(s) ==
    LET sorted == SortDesc(s)
    IN  Tuple([i \in 1..Len(s) |-> SetMin({ j \in 1..Len(s) : RatEq(sorted[j], s[i]) })])

\* The comparison of two strings: by code point, a proper prefix first.
RECURSIVE StrLess(_, _)
StrLess(a, b) ==
    IF Len(b) = 0 THEN FALSE
    ELSE IF Len(a) = 0 THEN TRUE
    ELSE IF a[1] # b[1] THEN a[1] < b[1]
    ELSE StrLess(Tail(a), Tail(b))

\* The position of a label in the display order.
DisplayIndex(label) == CHOOSE i \in DOMAIN MATURITY_ORDER : MATURITY_ORDER[i] = label

\* Line 269: mdf.sort_values(["CompositeRank", "Maturity"]).iloc[0]
BestRowDisplayOrder(mdf) ==
    LET i == CHOOSE i \in DOMAIN mdf : \A j \in DOMAIN mdf :
                 \/ i = j
                 \/ RatLess(mdf[i].CompositeRank, mdf[j].CompositeRank)
                 \/ /\ RatEq(mdf[i].CompositeRank, mdf[j].CompositeRank)
                    /\ DisplayIndex(mdf[i].Maturity) < DisplayIndex(mdf[j].Maturity)
    IN  mdf[i]

BestRow(mdf) ==
    LET i == CHOOSE i \in DOMAIN mdf : \A j \in DOMAIN mdf :
                 \/ i = j
                 \/ RatLess(mdf[i].CompositeRank, mdf[j].CompositeRank)
                 \/ /\ RatEq(mdf[i].CompositeRank, mdf[j].CompositeRank)
                    /\ StrLess(LabelText[mdf[i].Maturity], LabelText[mdf[j].Maturity])
    IN  mdf[i]

\* summarize: the metrics table (one row per maturity with data, in display
\* order, with its three ranks and their mean) and the summary text, of which
\* the "Best overall (composite)" line is kept; RuntimeError("No maturity
\* metrics computed.") when every value is absent.
WithRanks(base, RankYield, RankIntensity, RankValue) ==
    Tuple([i \in 1..Len(base) |->
        [Maturity |-> base[i].Maturity,
         Years |-> base[i].Years,
         CurrentYieldPct |-> base[i].CurrentYieldPct,
         IntensitySquared |-> base[i].IntensitySquared,
         HasTrend |-> base[i].HasTrend,
         TrendBpsPerMonth |-> base[i].TrendBpsPerMonth,
         TrendR2 |-> base[i].TrendR2,
         ValueScore |-> base[i].ValueScore,
         RankYield |-> RankYield[i],
         RankIntensity |-> RankIntensity[i],
         RankValue |-> RankValue[i],
         CompositeRank |-> Rat(RankYield[i] + RankIntensity[i] + RankValue[i], 3)]])

\* Lines 261-267: the three ranks and their mean.
Ranked(base) ==
    WithRanks(base,
              RankDesc(Tuple([i \in 1..Len(base) |-> base[i].CurrentYieldPct])),
              RankDesc(Tuple([i \in 1..Len(base) |-> base[i].IntensitySquared])),
              RankDesc(Tuple([i \in 1..Len(base) |-> base[i].ValueScore])))

\* Lines 258-259 and 269-312.
SummaryOfMetrics(mdf) ==
    IF Len(mdf) = 0 THEN [ok |-> FALSE, metrics |-> <<>>, best_overall |-> ""]
    ELSE [ok |-> TRUE, metrics |-> mdf, best_overall |-> BestRow(mdf).Maturity]

\* Lines 221-256: one row per maturity with data, in display order.
MetricsRows(df, labels) == Tuple([i \in 1..Len(labels) |-> MetricsRow(df, labels[i])])

SummarizeTable(df) ==
    SummaryOfMetrics(Ranked(MetricsRows(df,
        SelectSeq(MATURITY_ORDER, LAMBDA l : \E i \in DOMAIN df : df[i].y[l] # NaN))))

\* summarize is a function of the table alone: its value on the tables of
\* the handlers' feeds is computed once.
FeedTables == { ParseFeed(f).df : f \in Feeds \ {<<>>} }

SummaryOf == [df \in FeedTables |-> SummarizeTable(df)]

Summarize(df) == IF df \in FeedTables THEN SummaryOf[df] ELSE SummarizeTable(df)

(***************************************************************************)
(* The persisted table yields_<period>.csv: one text cell per row, empty   *)
(* for an absent value.                                                    *)
(***************************************************************************)
NoCsv == [exists |-> FALSE, rows |-> <<>>]

\* df.to_csv(csv_path, index=False)
ToCsv(df) ==
    [exists |-> TRUE,
     rows |-> Tuple([i \in 1..Len(df) |->
                        [Date |-> df[i].Date,
                         y |-> [l \in Labels |->
                                   IF df[i].y[l] = NaN THEN <<>> ELSE <<df[i].y[l]>>]]])]

\* pd.read_csv(csv_path, parse_dates=["Date"])
ReadCsv(file) ==
    Tuple([i \in 1..Len(file.rows) |->
              [Date |-> file.rows[i].Date,
               y |-> [l \in Labels |-> ParseYield(file.rows[i].y[l])]]])

(***************************************************************************)
(* The output directory as a record, threaded through a handler's steps.   *)
(***************************************************************************)
Dir == [csv |-> csv, p_all |-> p_all, p_facets |-> p_facets, p_ytd |-> p_ytd,
        marker |-> marker]

\* fetch_month_df: the fetch of one month's feed and its parse.
FetchMonthDf(fetch) ==
    IF ~fetch.ok THEN [ok |-> FALSE, error |-> "RequestException", df |-> <<>>]
    ELSE ParseFeed(fetch.feed)

RECURSIVE Concat(_)
Concat(frames) ==
    IF Len(frames) = 0 THEN <<>>
    ELSE Concat(SubSeq(frames, 1, Len(frames) - 1)) \o frames[Len(frames)].df

\* build_ytd_df: the months of the year up to the period are fetched and
\* parsed, a month that fails is left out, and the tables are concatenated and
\* sorted by date; RuntimeError when no month gave a table.
BuildYtdDf(fetches) ==
    LET frames == SelectSeq(Tuple([i \in 1..Len(fetches) |-> FetchMonthDf(fetches[i])]),
                            LAMBDA p : p.ok)
    IN  IF Len(frames) = 0 THEN [ok |-> FALSE, error |-> "RuntimeError", df |-> <<>>]
        ELSE [ok |-> TRUE, error |-> "", df |-> SortValuesByDate(Concat(frames))]

\* build_ytd_df + plot_ytd inside try/except: never raises to the caller.
\* build_ytd_df fetches and parses every month up to the period, the period
\* itself included.
BuildAndPlotYtd(fs, ytd) ==
    IF ytd = "fetch_fail"
    THEN [fs |-> fs, trace |-> <<"ytd_fetch_xml_raises">>]
    ELSE IF ytd = "plot_fail"
    THEN [fs |-> fs, trace |-> <<"ytd_fetch_xml", "ytd_parse_feed", "plot_ytd_raises">>]
    ELSE [fs |-> [fs EXCEPT !.p_ytd = TRUE],
          trace |-> <<"ytd_fetch_xml", "ytd_parse_feed", "plot_ytd">>]

(***************************************************************************)
(* The record of the last run (the observable outcome of a handler).       *)
(*   trace   : the calls the run made, in order; "<call>_raises" for a     *)
(*             call that raised                                            *)
(*   outcome : main's return value (1: uncaught exception), or the HTTP    *)
(*             status of a web handler                                     *)
(*   raised  : the handler ended with an uncaught exception                *)
(*   status  : main's regen_status                                         *)
(*   df, metrics : the table and the metrics table the run ended with      *)
(***************************************************************************)
Idle ==
    [caller |-> "none", force |-> FALSE, trace |-> <<>>, outcome |-> 0,
     raised |-> FALSE, status |-> "", df |-> <<>>, metrics |-> <<>>]

NotConsulted == [called |-> FALSE, files_exist |-> FALSE, raised |-> FALSE, value |-> FALSE]

Consulted(files_exist, r) ==
    [called |-> TRUE, files_exist |-> files_exist, raised |-> r.raised, value |-> r.value]

(***************************************************************************)
(* treas_analyzer.main                                                     *)
(***************************************************************************)
\* process_and_summarize_data: fetch, parse, summarize; the first failure raises.
\* s: what summarize gives on the parsed table p.df.
SummarizedData(p, s) ==
    IF ~s.ok
    THEN [ok |-> FALSE, trace |-> <<"fetch_xml", "parse_feed", "summarize_raises">>,
          df |-> <<>>, metrics |-> <<>>]
    ELSE [ok |-> TRUE, trace |-> <<"fetch_xml", "parse_feed", "summarize">>,
          df |-> p.df, metrics |-> s.metrics]

\* p: what parse_feed gives on the fetched text.
ParsedData(p) ==
    IF ~p.ok
    THEN [ok |-> FALSE, trace |-> <<"fetch_xml", "parse_feed_raises">>,
          df |-> <<>>, metrics |-> <<>>]
    ELSE SummarizedData(p, Summarize(p.df))

\* x: what fetch_xml gives.
FetchedData(x) ==
    IF ~x.ok
    THEN [ok |-> FALSE, trace |-> <<"fetch_xml_raises">>, df |-> <<>>, metrics |-> <<>>]
    ELSE ParsedData(ParseFeed(x.text))

ProcessAndSummarizeData(env) == FetchedData(FetchXml(env.net, env.feed))

\* The body of main's try block: the pipeline, the persisted table, the plots,
\* the optional year-to-date plot, then the marker.
MainRegenerateYtdFatal(fs, env, t) ==
    LET d == ProcessAndSummarizeData(env)
    IN  IF ~d.ok
        THEN [ok |-> FALSE, fs |-> fs, trace |-> d.trace, df |-> <<>>, metrics |-> <<>>]
        ELSE LET fs1 == [fs EXCEPT !.csv = ToCsv(d.df)]
             IN  IF ~env.plot
                 THEN [ok |-> FALSE, fs |-> fs1,
                       trace |-> d.trace \o <<"to_csv", "plot_all_raises">>,
                       df |-> <<>>, metrics |-> <<>>]
                 ELSE LET fs2 == [fs1 EXCEPT !.p_all = TRUE, !.p_facets = TRUE]
                          y == BuildAndPlotYtd(fs2, env.ytd)
                      IN  IF env.ytd # "ok"
                          THEN [ok |-> FALSE, fs |-> y.fs,
                                trace |-> d.trace \o <<"to_csv", "plot_all">> \o y.trace,
                                df |-> <<>>, metrics |-> <<>>]
                          ELSE [ok |-> TRUE,
                                fs |-> [y.fs EXCEPT !.marker = WriteGeneratedMarker(t)],
                                trace |-> d.trace \o <<"to_csv", "plot_all">> \o y.trace
                                          \o <<"write_generated_marker">>,
                                df |-> d.df, metrics |-> d.metrics]

\* Lines 501-510, d being what process_and_summarize_data gave.
MainWriteOutputs(fs, env, t, d) ==
    IF ~d.ok
    THEN [ok |-> FALSE, fs |-> fs, trace |-> d.trace, df |-> <<>>, metrics |-> <<>>]
    ELSE LET fs1 == [fs EXCEPT !.csv = ToCsv(d.df)]
         IN  IF ~env.plot
             THEN [ok |-> FALSE, fs |-> fs1,
                   trace |-> d.trace \o <<"to_csv", "plot_all_raises">>,
                   df |-> <<>>, metrics |-> <<>>]
             ELSE LET fs2 == [fs1 EXCEPT !.p_all = TRUE, !.p_facets = TRUE]
                      y == BuildAndPlotYtd(fs2, env.ytd)
                  IN  [ok |-> TRUE,
                       fs |-> [y.fs EXCEPT !.marker = WriteGeneratedMarker(t)],
                       trace |-> d.trace \o <<"to_csv", "plot_all">> \o y.trace
                                 \o <<"write_generated_marker">>,
                       df |-> d.df, metrics |-> d.metrics]

MainRegenerate(fs, env, t) == MainWriteOutputs(fs, env, t, ProcessAndSummarizeData(env))

\* Lines 538-562: summarize again, write the summary file, return 0.
MainFinish(fs, force, trace, status, df, metrics) ==
    [fs |-> fs,
     run |-> [caller |-> "main", force |-> force,
              trace |-> trace \o <<"summarize", "write_summary">>,
              outcome |-> 0, raised |-> FALSE, status |-> status,
              df |-> df, metrics |-> metrics]]

MainReturn2(fs, force, trace) ==
    [fs |-> fs,
     run |-> [caller |-> "main", force |-> force, trace |-> trace, outcome |-> 2,
              raised |-> FALSE, status |-> "Using cached outputs",
              df |-> <<>>, metrics |-> <<>>]]

\* pd.read_csv + summarize outside any try: a failure of summarize ends main
\* with an uncaught exception (the interpreter exits with 1).
MainSummarizePersisted(fs, force, trace, df, s) ==
    IF ~s.ok
    THEN [fs |-> fs,
          run |-> [caller |-> "main", force |-> force,
                   trace |-> trace \o <<"read_csv", "summarize_raises">>,
                   outcome |-> 1, raised |-> TRUE, status |-> "Using cached outputs",
                   df |-> df, metrics |-> <<>>]]
    ELSE MainFinish(fs, force, trace \o <<"read_csv", "summarize">>,
                    "Using cached outputs", df, s.metrics)

MainLoadPersisted(fs, force, trace) ==
    MainSummarizePersisted(fs, force, trace, ReadCsv(fs.csv), Summarize(ReadCsv(fs.csv)))

\* Line 492: the artifacts main requires.
MainFilesExist(fs) == fs.csv.exists /\ fs.p_all /\ fs.p_ytd /\ fs.p_facets

\* Line 493: regen_needed and the policy call it makes (short-circuit or).
MainPolicyAlways(fs, t, force) ==
    LET r == ShouldRegenerate(fs.marker, t, MainFilesExist(fs))
    IN  [regen_needed |-> r.value, policy |-> Consulted(MainFilesExist(fs), r)]

MainPolicy(fs, t, force) ==
    IF force
    THEN [regen_needed |-> TRUE, policy |-> NotConsulted]
    ELSE LET r == ShouldRegenerate(fs.marker, t, MainFilesExist(fs))
         IN  [regen_needed |-> r.value, policy |-> Consulted(MainFilesExist(fs), r)]

MainRunAlwaysRegenerate(fs, t, force, env) ==
    LET g == MainRegenerate(fs, env, t)
    IN  IF g.ok
        THEN MainFinish(g.fs, force, g.trace, "Generated new outputs", g.df, g.metrics)
        ELSE IF g.fs.csv.exists
        THEN MainLoadPersisted(g.fs, force, g.trace)
        ELSE MainReturn2(g.fs, force, g.trace)

\* Lines 499-517: after the try block g of a needed regeneration, whose
\* failure falls back on the persisted table.
MainAfterRegeneration(g, force) ==
    IF g.ok
    THEN MainFinish(g.fs, force, g.trace, "Generated new outputs", g.df, g.metrics)
    ELSE IF g.fs.csv.exists
    THEN MainLoadPersisted(g.fs, force, g.trace)
    ELSE MainReturn2(g.fs, force, g.trace)

\* Lines 522-536: after the try block g run for want of a persisted table.
MainAfterFirstGeneration(g, force) ==
    IF g.ok
    THEN MainFinish(g.fs, force, g.trace, "Generated new outputs", g.df, g.metrics)
    ELSE MainReturn2(g.fs, force, g.trace)

\* main(argv) on a valid --month.
MainRun(fs, t, force, env) ==
    IF MainPolicy(fs, t, force).regen_needed
    THEN MainAfterRegeneration(MainRegenerate(fs, env, t), force)
    ELSE IF fs.csv.exists
    THEN MainLoadPersisted(fs, force, <<>>)
    ELSE MainAfterFirstGeneration(MainRegenerate(fs, env, t), force)

(***************************************************************************)
(* webapp.app                                                              *)
(***************************************************************************)
\* Lines 198 of index and 296 of invest:
\* metrics_df.sort_values(["CompositeRank"]).iloc[0]["Maturity"].  The sort
\* has one key and the default kind (quicksort, not stable): which of the
\* rows that share the lowest composite rank comes first depends on the
\* build of the sorting library.  The set of the maturities it can give.
WebBestOverall(metrics_df) ==
    { metrics_df[i].Maturity : i \in
        { i \in DOMAIN metrics_df : \A j \in DOMAIN metrics_df :
            ~RatLess(metrics_df[j].CompositeRank, metrics_df[i].CompositeRank) } }

\* cache_key(year_month)
CacheKey(year_month) == <<"data", year_month>>

\* The dict _cache: its items in insertion order, each a key with its
\* timestamp and template data.
EmptyCache == <<>>

CacheHas(c, k) == \E i \in DOMAIN c : c[i].key = k

CacheGet(c, k) == c[CHOOSE i \in DOMAIN c : c[i].key = k]

\* _cache[k] = value: in place when the key is there, else at the end.
CacheSet(c, k, entry) ==
    LET item == [key |-> k, timestamp |-> entry.timestamp,
                 template_data |-> entry.template_data]
    IN  IF CacheHas(c, k)
        THEN [c EXCEPT ![CHOOSE i \in DOMAIN c : c[i].key = k] = item]
        ELSE Append(c, item)

\* min(_cache.keys(), key=timestamp): the first of the items, in insertion
\* order, that have the lowest timestamp.
OldestIndex(c) ==
    SetMin({ i \in DOMAIN c : \A j \in DOMAIN c : c[i].timestamp <= c[j].timestamp })

CacheDelete(c, i) == SubSeq(c, 1, i - 1) \o SubSeq(c, i + 1, Len(c))

\* Lines 124-127: the key is cached and younger than the lifetime.
CacheFresh(c, k, t) ==
    CacheHas(c, k) /\ Seconds(t) - CacheGet(c, k).timestamp < CacheTtlSeconds

\* Lines 229-237: store the response, then drop the oldest entry when the
\* cache holds more than CacheMaxEntries.
CachePutEvictLatest(c, k, entry) ==
    LET c1 == CacheSet(c, k, entry)
    IN  IF Len(c1) > CacheMaxEntries THEN CacheDelete(c1, Len(c1)) ELSE c1

CachePut(c, k, entry) ==
    LET c1 == CacheSet(c, k, entry)
    IN  IF Len(c1) > CacheMaxEntries THEN CacheDelete(c1, OldestIndex(c1)) ELSE c1

WebRun(caller, trace, outcome, raised, df, metrics) ==
    [caller |-> caller, force |-> FALSE, trace |-> trace, outcome |-> outcome,
     raised |-> raised, status |-> "", df |-> df, metrics |-> metrics]

\* Line 146: the artifacts index requires (the year-to-date plot is not one).
IndexFilesExist(fs) == fs.csv.exists /\ fs.p_all /\ fs.p_facets

\* Lines 157-167: fetch and parse; on an SSL error, once more without
\* certificate verification; any other failure renders the error page.
IndexFetchAndParse(env) ==
    LET x == FetchXml(env.net, env.feed)
    IN  IF x.ok
        THEN LET p == ParseFeed(x.text)
             IN  IF p.ok THEN [ok |-> TRUE, trace |-> <<"fetch_xml", "parse_feed">>, df |-> p.df]
                 ELSE [ok |-> FALSE, trace |-> <<"fetch_xml", "parse_feed_raises">>, df |-> <<>>]
        ELSE IF x.ssl
        THEN LET x2 == FetchXml(env.net2, env.feed)
             IN  IF ~x2.ok
                 THEN [ok |-> FALSE, trace |-> <<"fetch_xml_raises", "fetch_xml_raises">>,
                       df |-> <<>>]
                 ELSE LET p == ParseFeed(x2.text)
                      IN  IF p.ok
                          THEN [ok |-> TRUE,
                                trace |-> <<"fetch_xml_raises", "fetch_xml", "parse_feed">>,
                                df |-> p.df]
                          ELSE [ok |-> FALSE,
                                trace |-> <<"fetch_xml_raises", "fetch_xml", "parse_feed_raises">>,
                                df |-> <<>>]
        ELSE [ok |-> FALSE, trace |-> <<"fetch_xml_raises">>, df |-> <<>>]

\* Lines 195-239: summarize (uncaught when it raises), cache the response,
\* render the page.
IndexRenderSummary(fs, c, t, pol, trace, df, s) ==
    IF ~s.ok
    THEN [fs |-> fs, cache |-> c, policy |-> pol,
          run |-> WebRun("index", trace \o <<"summarize_raises">>, 500, TRUE, df, <<>>)]
    ELSE [fs |-> fs,
          cache |-> CachePut(c, CacheKey(Period),
                             [timestamp |-> Seconds(t), template_data |-> s.metrics]),
          policy |-> pol,
          run |-> WebRun("index", trace \o <<"summarize">>, 200, FALSE, df, s.metrics)]

IndexRender(fs, c, t, pol, trace, df) ==
    IndexRenderSummary(fs, c, t, pol, trace, df, Summarize(df))

\* Lines 156-177: the regeneration index performs during a request.
IndexRegenerate(fs, c, t, pol, env) ==
    LET f == IndexFetchAndParse(env)
    IN  IF ~f.ok
        THEN [fs |-> fs, cache |-> c, policy |-> pol,
              run |-> WebRun("index", f.trace, 500, FALSE, <<>>, <<>>)]
        ELSE LET fs1 == [fs EXCEPT !.csv = ToCsv(f.df)]
             IN  IF ~env.plot
                 THEN [fs |-> fs1, cache |-> c, policy |-> pol,
                       run |-> WebRun("index", f.trace \o <<"to_csv", "plot_all_raises">>,
                                      500, TRUE, f.df, <<>>)]
                 ELSE LET fs2 == [fs1 EXCEPT !.p_all = TRUE, !.p_facets = TRUE]
                          y == BuildAndPlotYtd(fs2, env.ytd)
                          fs3 == [y.fs EXCEPT !.marker = WriteGeneratedMarker(t)]
                      IN  IndexRender(fs3, c, t, pol,
                                      f.trace \o <<"to_csv", "plot_all">> \o y.trace
                                          \o <<"write_generated_marker">>,
                                      f.df)

\* Lines 178-193: load the persisted table; outside Cloud Run, build the
\* year-to-date plot when it is missing.
IndexLoadPersisted(fs, c, t, pol, cloud, env) ==
    LET df == ReadCsv(fs.csv)
    IN  IF ~cloud /\ ~fs.p_ytd
        THEN LET y == BuildAndPlotYtd(fs, env.ytd)
             IN  IndexRender(y.fs, c, t, pol, <<"read_csv">> \o y.trace, df)
        ELSE IndexRender(fs, c, t, pol, <<"read_csv">>, df)

\* index() for the period.
IndexRun(fs, c, t, cloud, env) ==
    LET k == CacheKey(Period)
    IN  IF CacheFresh(c, k, t)
        THEN [fs |-> fs, cache |-> c, policy |-> NotConsulted,
              run |-> WebRun("index", <<"cache_hit">>, 200, FALSE, <<>>,
                             CacheGet(c, k).template_data)]
        ELSE LET files_exist == IndexFilesExist(fs)
                 r == ShouldRegenerate(fs.marker, t, files_exist)
                 pol == Consulted(files_exist, r)
             IN  IF cloud /\ files_exist /\ ~r.value
                 THEN IndexRender(fs, c, t, pol, <<"read_csv">>, ReadCsv(fs.csv))
                 ELSE IF r.value
                 THEN IndexRegenerate(fs, c, t, pol, env)
                 ELSE IndexLoadPersisted(fs, c, t, pol, cloud, env)

\* Lines 277-289 of invest and 400-412 of ladder: fetch minimally when the
\* persisted table is missing, else load it.
FetchMinimal(fs, t, env) ==
    IF ~fs.csv.exists
    THEN LET x == FetchXml(env.net, env.feed)
         IN  IF ~x.ok
             THEN [ok |-> FALSE, fs |-> fs, trace |-> <<"fetch_xml_raises">>, df |-> <<>>]
             ELSE LET p == ParseFeed(x.text)
                  IN  IF ~p.ok
                      THEN [ok |-> FALSE, fs |-> fs,
                            trace |-> <<"fetch_xml", "parse_feed_raises">>, df |-> <<>>]
                      ELSE [ok |-> TRUE,
                            fs |-> [fs EXCEPT !.csv = ToCsv(p.df),
                                              !.marker = WriteGeneratedMarker(t)],
                            trace |-> <<"fetch_xml", "parse_feed", "to_csv",
                                        "write_generated_marker">>,
                            df |-> p.df]
    ELSE [ok |-> TRUE, fs |-> fs, trace |-> <<"read_csv">>, df |-> ReadCsv(fs.csv)]

\* invest(): the best maturity is None when summarize raises.
InvestSummary(f, s) ==
    IF s.ok
    THEN [fs |-> f.fs,
          run |-> WebRun("invest", f.trace \o <<"summarize">>, 200, FALSE, f.df, s.metrics)]
    ELSE [fs |-> f.fs,
          run |-> WebRun("invest", f.trace \o <<"summarize_raises">>, 200, FALSE,
                         f.df, <<>>)]

\* f: what the minimal fetch gave.
InvestAfterFetch(f) ==
    IF ~f.ok
    THEN [fs |-> f.fs, run |-> WebRun("invest", f.trace, 500, FALSE, <<>>, <<>>)]
    ELSE InvestSummary(f, Summarize(f.df))

InvestRun(fs, t, env) == InvestAfterFetch(FetchMinimal(fs, t, env))

\* ladder(): no ranking at all.
LadderAfterFetch(f) ==
    IF ~f.ok
    THEN [fs |-> f.fs, run |-> WebRun("ladder", f.trace, 500, FALSE, <<>>, <<>>)]
    ELSE [fs |-> f.fs, run |-> WebRun("ladder", f.trace, 200, FALSE, f.df, <<>>)]

LadderRun(fs, t, env) == LadderAfterFetch(FetchMinimal(fs, t, env))

(***************************************************************************)
(* The state machine.                                                      *)
(***************************************************************************)
\* A fresh deployment: an empty output directory, an empty response cache.
Init ==
    /\ now \in { t \in Clock : t.day = 0 }
    /\ csv = NoCsv
    /\ p_all = FALSE
    /\ p_facets = FALSE
    /\ p_ytd = FALSE
    /\ marker = MarkerAbsent
    /\ cache = EmptyCache
    /\ cloud_run \in BOOLEAN
    /\ policy = NotConsulted
    /\ run = Idle
    /\ arg = <<>>
    /\ result = <<>>

SetDir(fs) ==
    /\ csv' = fs.csv
    /\ p_all' = fs.p_all
    /\ p_facets' = fs.p_facets
    /\ p_ytd' = fs.p_ytd
    /\ marker' = fs.marker

\* python -m treas_analyzer.main [--force-regenerate]; also the startup thread.
Main(force, env) ==
    \E r \in {MainRun(Dir, now, force, env)} :
        /\ SetDir(r.fs)
        /\ run' = r.run
        /\ policy' = MainPolicy(Dir, now, force).policy
        /\ UNCHANGED <<now, cache, cloud_run, arg, result>>

\* GET /
Index(env) ==
    \E r \in {IndexRun(Dir, cache, now, cloud_run, env)} :
        /\ SetDir(r.fs)
        /\ run' = r.run
        /\ policy' = r.policy
        /\ cache' = r.cache
        /\ UNCHANGED <<now, cloud_run, arg, result>>

\* GET /invest
Invest(env) ==
    \E r \in {InvestRun(Dir, now, env)} :
        /\ SetDir(r.fs)
        /\ run' = r.run
        /\ policy' = NotConsulted
        /\ UNCHANGED <<now, cache, cloud_run, arg, result>>

\* GET /ladder
Ladder(env) ==
    \E r \in {LadderRun(Dir, now, env)} :
        /\ SetDir(r.fs)
        /\ run' = r.run
        /\ policy' = NotConsulted
        /\ UNCHANGED <<now, cache, cloud_run, arg, result>>

\* Time passes between two runs.
Tick ==
    /\ now' \in { u \in Clock : Later(now, u) }
    /\ run' = Idle
    /\ policy' = NotConsulted
    /\ UNCHANGED <<csv, p_all, p_facets, p_ytd, marker, cache, cloud_run, arg, result>>

Next ==
    \/ \E force \in BOOLEAN, env \in MainEnvs : Main(force, env)
    \/ \E env \in Envs : Index(env)
    \/ \E env \in MinimalEnvs : Invest(env)
    \/ \E env \in MinimalEnvs : Ladder(env)
    \/ Tick

Spec == Init /\ [][Next]_vars

(***************************************************************************)
(* The freshness policy on its own: should_regenerate applied to every     *)
(* marker file, files_exist flag and time.                                 *)
(***************************************************************************)
PolicyInit ==
    /\ now \in PolicyClock
    /\ marker \in MarkerStates
    /\ csv = NoCsv
    /\ p_all = FALSE
    /\ p_facets = FALSE
    /\ p_ytd = FALSE
    /\ cache = EmptyCache
    /\ cloud_run = FALSE
    /\ policy = NotConsulted
    /\ run = Idle
    /\ arg = <<>>
    /\ result = <<>>

CallShouldRegenerate(files_exist) ==
    /\ policy' = Consulted(files_exist, ShouldRegenerate(marker, now, files_exist))
    /\ UNCHANGED <<now, csv, p_all, p_facets, p_ytd, marker, cache, cloud_run, run, arg, result>>

PolicyTick ==
    /\ now' \in { u \in PolicyClock : Later(now, u) }
    /\ policy' = NotConsulted
    /\ UNCHANGED <<csv, p_all, p_facets, p_ytd, marker, cache, cloud_run, run, arg, result>>

PolicyNext ==
    \/ \E files_exist \in BOOLEAN : CallShouldRegenerate(files_exist)
    \/ PolicyTick

SpecPolicy == PolicyInit /\ [][PolicyNext]_vars

(***************************************************************************)
(* The handlers with their arguments: the --month argument of main, the    *)
(* month parameter of the web handlers and the amount of invest and        *)
(* ladder.  The period of the model is the current month.                  *)
(***************************************************************************)
\* The text of a month argument, as code points: absent (or empty),
\* "202501", "2025-1" (six characters, not all digits), "20251" (five digits).
PeriodText == <<50, 48, 50, 53, 48, 49>>

MonthTexts == { <<>>, PeriodText, <<50, 48, 50, 53, 45, 49>>, <<50, 48, 50, 53, 49>> }

\* What the network does during a request: the fetch fails, or gives the
\* entry of one day with a yield.
RequestEnvs == { e \in MinimalEnvs : e.net = "error" \/ e.feed = <<DatedEntry(1, <<1>>)>> }

\* str.isdigit on one ASCII character.
IsDigit(c) == c \in 48..57

\* build_month_arg: the period, or ValueError("--month must be in YYYYMM
\* format"); without an argument, the current month.
BuildMonthArg(year_month) ==
    IF Len(year_month) > 0
    THEN IF ~(Len(year_month) = 6 /\ \A i \in DOMAIN year_month : IsDigit(year_month[i]))
         THEN [raised |-> TRUE, value |-> <<>>]
         ELSE [raised |-> FALSE, value |-> year_month]
    ELSE [raised |-> FALSE, value |-> PeriodText]

\* The text of an amount: not a number ("abc"), "nan", or a decimal number.
AmountTexts ==
    { [numeric |-> FALSE, nan |-> FALSE, value |-> 0],
      [numeric |-> TRUE, nan |-> TRUE, value |-> 0] }
    \cup { [numeric |-> TRUE, nan |-> FALSE, value |-> v] :
              v \in {MinAmount - 1, MinAmount, MaxAmount, MaxAmount + 1} }

\* Lines 258-267 of invest and 378-385 of ladder: float(amt_raw) and the range
\* check.  Every comparison with float("nan") is false.
ParseAmount(amt_raw) ==
    IF ~amt_raw.numeric THEN [error |-> "must be a number", valid |-> FALSE]
    ELSE IF amt_raw.nan THEN [error |-> "", valid |-> FALSE]
    ELSE IF amt_raw.value < MinAmount \/ amt_raw.value > MaxAmount
    THEN [error |-> "must be between 500 and 10,000,000", valid |-> FALSE]
    ELSE [error |-> "", valid |-> TRUE]

NoRequest == [handler |-> "none", month |-> <<>>, amount |-> [numeric |-> TRUE, nan |-> FALSE, value |-> MinAmount]]

\* What the validation of the last request gave: the month argument raised
\* out of the handler, was replaced by the current month, and the error
\* message of the amount.
NotValidated == [raised |-> FALSE, fallback |-> FALSE, error |-> ""]

\* Line 484 of main: build_month_arg outside any try.
MainArgs(month, force, env) ==
    /\ arg' = [handler |-> "main", month |-> month, amount |-> NoRequest.amount]
    /\ IF BuildMonthArg(month).raised
       THEN /\ run' = [caller |-> "main", force |-> force,
                       trace |-> <<"build_month_arg_raises">>, outcome |-> 1,
                       raised |-> TRUE, status |-> "", df |-> <<>>, metrics |-> <<>>]
            /\ result' = [raised |-> TRUE, fallback |-> FALSE, error |-> "--month must be in YYYYMM format"]
            /\ policy' = NotConsulted
            /\ UNCHANGED <<csv, p_all, p_facets, p_ytd, marker>>
       ELSE \E r \in {MainRun(Dir, now, force, env)} :
                /\ SetDir(r.fs)
                /\ run' = r.run
                /\ policy' = MainPolicy(Dir, now, force).policy
                /\ result' = NotValidated
    /\ UNCHANGED <<now, cache, cloud_run>>

\* Lines 115-119 of index: a month that build_month_arg rejects is replaced
\* by the current month.
IndexArgs(month, env) ==
    /\ arg' = [handler |-> "index", month |-> month, amount |-> NoRequest.amount]
    /\ result' = [raised |-> FALSE, fallback |-> BuildMonthArg(month).raised, error |-> ""]
    /\ \E r \in {IndexRun(Dir, cache, now, cloud_run, env)} :
          /\ SetDir(r.fs)
          /\ run' = r.run
          /\ policy' = r.policy
          /\ cache' = r.cache
    /\ UNCHANGED <<now, cloud_run>>

\* Lines 251-267 of invest: the month as in index; the amount's error is
\* kept for the page, and the handler goes on.
InvestArgs(month, amount, env) ==
    /\ arg' = [handler |-> "invest", month |-> month, amount |-> amount]
    /\ result' = [raised |-> FALSE, fallback |-> BuildMonthArg(month).raised,
                  error |-> ParseAmount(amount).error]
    /\ \E r \in {InvestRun(Dir, now, env)} :
          /\ SetDir(r.fs)
          /\ run' = r.run
    /\ policy' = NotConsulted
    /\ UNCHANGED <<now, cache, cloud_run>>

\* Lines 350-385 of ladder, for the month and the total amount.
LadderArgs(month, amount, env) ==
    /\ arg' = [handler |-> "ladder", month |-> month, amount |-> amount]
    /\ result' = [raised |-> FALSE, fallback |-> BuildMonthArg(month).raised,
                  error |-> ParseAmount(amount).error]
    /\ \E r \in {LadderRun(Dir, now, env)} :
          /\ SetDir(r.fs)
          /\ run' = r.run
    /\ policy' = NotConsulted
    /\ UNCHANGED <<now, cache, cloud_run>>

RequestsInit ==
    /\ now \in { t \in Clock : t.day = 0 }
    /\ csv = NoCsv
    /\ p_all = FALSE
    /\ p_facets = FALSE
    /\ p_ytd = FALSE
    /\ marker = MarkerAbsent
    /\ cache = EmptyCache
    /\ cloud_run \in BOOLEAN
    /\ policy = NotConsulted
    /\ run = Idle
    /\ arg = NoRequest
    /\ result = NotValidated

RequestsNext ==
    \/ \E month \in MonthTexts, force \in BOOLEAN, env \in RequestEnvs :
          MainArgs(month, force, env)
    \/ \E month \in MonthTexts, env \in RequestEnvs : IndexArgs(month, env)
    \/ \E month \in MonthTexts, amount \in AmountTexts, env \in RequestEnvs :
          InvestArgs(month, amount, env)
    \/ \E month \in MonthTexts, amount \in AmountTexts, env \in RequestEnvs :
          LadderArgs(month, amount, env)

SpecRequests == RequestsInit /\ [][RequestsNext]_vars

(***************************************************************************)
(* The response cache over the periods of a year: index requests, one      *)
(* after the other, at non-decreasing times.  A request that is not served *)
(* from the cache runs the period's pipeline, which fails (error page, the *)
(* cache untouched) or renders the page and stores it.  Each request is    *)
(* for a period the cache holds or for the next period of the year; arg is *)
(* the number of periods stored so far.                                    *)
(***************************************************************************)
Periods ==
    <<"202501", "202502", "202503", "202504", "202505", "202506",
      "202507", "202508", "202509", "202510", "202511", "202512">>

\* The times of the requests to the cache: the times of one day.
CacheClock == { t \in Clock : t.day = 0 }

CacheInit ==
    /\ now \in CacheClock
    /\ csv = NoCsv
    /\ p_all = FALSE
    /\ p_facets = FALSE
    /\ p_ytd = FALSE
    /\ marker = MarkerAbsent
    /\ cache = EmptyCache
    /\ cloud_run = FALSE
    /\ policy = NotConsulted
    /\ run = Idle
    /\ arg = 0
    /\ result = <<>>

\* index() for the period Periods[p], seen from the cache.
IndexCached(p, renders) ==
    /\ CacheHas(cache, CacheKey(Periods[p])) \/ p = arg + 1
    /\ arg' = IF p = arg + 1 /\ renders THEN p ELSE arg
    /\ LET k == CacheKey(Periods[p])
           stored == CacheSet(cache, k, [timestamp |-> Seconds(now), template_data |-> <<>>])
       IN  IF CacheFresh(cache, k, now)
           THEN /\ run' = WebRun("index", <<"cache_hit">>, 200, FALSE, <<>>, <<>>)
                /\ cache' = cache
           ELSE IF ~renders
           THEN /\ run' = WebRun("index", <<"error_page">>, 500, FALSE, <<>>, <<>>)
                /\ cache' = cache
           ELSE /\ run' = WebRun("index",
                                 IF Len(stored) > CacheMaxEntries
                                 THEN <<"cache_store", "cache_evict">>
                                 ELSE <<"cache_store">>,
                                 200, FALSE, <<>>, <<>>)
                /\ cache' = CachePut(cache, k, [timestamp |-> Seconds(now),
                                                 template_data |-> <<>>])
    /\ UNCHANGED <<now, csv, p_all, p_facets, p_ytd, marker, cloud_run, policy, result>>

CacheTick ==
    /\ now' \in { u \in CacheClock : Later(now, u) }
    /\ run' = Idle
    /\ UNCHANGED <<csv, p_all, p_facets, p_ytd, marker, cache, cloud_run, policy, arg, result>>

CacheNext ==
    \/ \E p \in DOMAIN Periods, renders \in BOOLEAN : IndexCached(p, renders)
    \/ CacheTick

SpecCache == CacheInit /\ [][CacheNext]_vars

(***************************************************************************)
(* Index requests served at once by two threads of the web process, on the *)
(* one dict _cache that no lock protects.  Each statement of lines 229-237 *)
(* is a step of its request (the interpreter runs one bytecode at a time,  *)
(* and may switch threads between any two): the store, the test of the     *)
(* length, the search of the oldest key, the deletion.  The search calls   *)
(* the key function once per key, so it is two steps, its start and its    *)
(* end.  arg is the two requests, each at the statement it runs next, with *)
(* its key, the dict as the search found it and the key the search gave;   *)
(* result is the number of periods requested so far and the exceptions     *)
(* raised.  A request is for a cached period or the next period; the       *)
(* second thread serves requests once the cache is one entry from full.    *)
(* The requests are those of one burst: all are stamped with one time.     *)
(***************************************************************************)
Requests == {1, 2}

Request(pc, key, seen, oldest) == [pc |-> pc, key |-> key, seen |-> seen, oldest |-> oldest]

NoRequestYet == Request("idle", <<>>, <<>>, <<>>)

SharedInit ==
    /\ now \in CacheClock
    /\ csv = NoCsv
    /\ p_all = FALSE
    /\ p_facets = FALSE
    /\ p_ytd = FALSE
    /\ marker = MarkerAbsent
    /\ cache = EmptyCache
    /\ cloud_run = FALSE
    /\ policy = NotConsulted
    /\ run = Idle
    /\ arg = [th \in Requests |-> NoRequestYet]
    /\ result = [periods |-> 0, key_error |-> FALSE, runtime_error |-> FALSE]

\* Lines 112-227: the request is answered from the cache, or fails with an
\* error page, or has its page ready to store.
SharedBegin(th, p, renders) ==
    /\ arg[th].pc = "idle"
    /\ th = 1 \/ Len(cache) >= CacheMaxEntries - 1
    /\ CacheHas(cache, CacheKey(Periods[p])) \/ p = result.periods + 1
    /\ IF CacheFresh(cache, CacheKey(Periods[p]), now) \/ ~renders
       THEN UNCHANGED <<arg, result>>
       ELSE /\ arg' = [arg EXCEPT ![th] = Request("store", CacheKey(Periods[p]), <<>>, <<>>)]
            /\ result' = [result EXCEPT !.periods = IF p = @ + 1 THEN p ELSE @]
    /\ UNCHANGED <<now, csv, p_all, p_facets, p_ytd, marker, cache, cloud_run, policy, run>>

\* Lines 229-232.
SharedStore(th) ==
    /\ arg[th].pc = "store"
    /\ cache' = CacheSet(cache, arg[th].key,
                         [timestamp |-> Seconds(now), template_data |-> <<>>])
    /\ arg' = [arg EXCEPT ![th].pc = "len"]
    /\ UNCHANGED <<now, csv, p_all, p_facets, p_ytd, marker, cloud_run, policy, run, result>>

\* Line 235.
SharedTestLen(th) ==
    /\ arg[th].pc = "len"
    /\ arg' = [arg EXCEPT ![th] = IF Len(cache) > CacheMaxEntries
                                  THEN [@ EXCEPT !.pc = "min"]
                                  ELSE NoRequestYet]
    /\ UNCHANGED <<now, csv, p_all, p_facets, p_ytd, marker, cache, cloud_run, policy,
                   run, result>>

\* Line 236, the iteration over the keys begins.
SharedMinStart(th) ==
    /\ arg[th].pc = "min"
    /\ arg' = [arg EXCEPT ![th] = [@ EXCEPT !.pc = "min_end", !.seen = cache]]
    /\ UNCHANGED <<now, csv, p_all, p_facets, p_ytd, marker, cache, cloud_run, policy,
                   run, result>>

\* Line 236, the iteration ends.  On a dict of another size the iteration
\* raises RuntimeError; on a dict of the same size that changed meanwhile it
\* gives the oldest key of the dict it began on or of the dict it ends on.
SharedMinEnd(th, late) ==
    /\ arg[th].pc = "min_end"
    /\ IF Len(cache) # Len(arg[th].seen)
       THEN /\ arg' = [arg EXCEPT ![th] = NoRequestYet]
            /\ result' = [result EXCEPT !.runtime_error = TRUE]
       ELSE /\ arg' = [arg EXCEPT ![th] =
                          [@ EXCEPT !.pc = "del", !.seen = <<>>,
                                    !.oldest = IF late
                                               THEN cache[OldestIndex(cache)].key
                                               ELSE arg[th].seen[OldestIndex(arg[th].seen)].key]]
            /\ UNCHANGED result
    /\ UNCHANGED <<now, csv, p_all, p_facets, p_ytd, marker, cache, cloud_run, policy, run>>

\* Line 237: del raises KeyError on a key that is not in the dict.
SharedDelete(th) ==
    /\ arg[th].pc = "del"
    /\ IF CacheHas(cache, arg[th].oldest)
       THEN /\ cache' = CacheDelete(cache, CHOOSE i \in DOMAIN cache :
                                               cache[i].key = arg[th].oldest)
            /\ UNCHANGED result
       ELSE /\ UNCHANGED cache
            /\ result' = [result EXCEPT !.key_error = TRUE]
    /\ arg' = [arg EXCEPT ![th] = NoRequestYet]
    /\ UNCHANGED <<now, csv, p_all, p_facets, p_ytd, marker, cloud_run, policy, run>>

SharedNext ==
    \/ \E th \in Requests, p \in DOMAIN Periods, renders \in BOOLEAN :
          SharedBegin(th, p, renders)
    \/ \E th \in Requests : SharedStore(th)
    \/ \E th \in Requests : SharedTestLen(th)
    \/ \E th \in Requests : SharedMinStart(th)
    \/ \E th \in Requests, late \in BOOLEAN : SharedMinEnd(th, late)
    \/ \E th \in Requests : SharedDelete(th)

SpecShared == SharedInit /\ [][SharedNext]_vars

(***************************************************************************)
(* The web process from its import on: the readiness flag, the startup     *)
(* task and GET /ready.  arg is the process: the flag _ready, whether      *)
(* DISABLE_STARTUP_REGENERATE is "1", and where the startup task stands    *)
(* ("import": app.py is being imported, line 93 not reached; "thread": the *)
(* regeneration thread is started and has not finished; "done").  result   *)
(* is the last answer of /ready.  STARTUP_MONTH is "auto".                 *)
(***************************************************************************)
Process(ready, disable, startup) ==
    [ready |-> ready, disable |-> disable, startup |-> startup]

NotAsked == [asked |-> FALSE, status |-> 0, ready |-> FALSE]

\* Lines 44-83: the body of the regeneration thread.  recent: the period's
\* table is less than an hour old (lines 59-61).
RunRegenReadyOnSuccess(fs, t, cr, recent, env) ==
    IF cr /\ fs.csv.exists /\ recent
    THEN [fs |-> fs, run |-> Idle, path |-> "skipped", ready |-> TRUE]
    ELSE LET r == MainRun(fs, t, TRUE, env)
         IN  [fs |-> r.fs, run |-> r.run,
              path |-> IF r.run.raised THEN "raised" ELSE "returned",
              ready |-> ~r.run.raised /\ r.run.outcome = 0]

\* Lines 78-83, r being the run of ta_main.main.
AfterStartupMain(r) ==
    IF r.run.raised
    THEN [fs |-> r.fs, run |-> r.run, path |-> "raised", ready |-> TRUE]
    ELSE [fs |-> r.fs, run |-> r.run, path |-> "returned", ready |-> TRUE]

RunRegenOptimized(fs, t, cr, recent, env) ==
    IF cr /\ fs.csv.exists /\ recent
    THEN [fs |-> fs, run |-> Idle, path |-> "skipped", ready |-> TRUE]
    ELSE AfterStartupMain(MainRun(fs, t, TRUE, env))

\* Line 32, before line 93 runs; the output directory is empty or holds what
\* a request to an earlier process left.
ReadyInit ==
    /\ now \in { t \in Clock : t.day = 0 }
    /\ cloud_run \in BOOLEAN
    /\ cache = EmptyCache
    /\ policy = NotConsulted
    /\ run = Idle
    /\ arg \in { Process(FALSE, d, "import") : d \in BOOLEAN }
    /\ \E fs \in { IndexRun([csv |-> NoCsv, p_all |-> FALSE, p_facets |-> FALSE,
                               p_ytd |-> FALSE, marker |-> MarkerAbsent],
                              EmptyCache, now, cloud_run, env).fs : env \in Envs } :
              /\ csv = fs.csv
              /\ p_all = fs.p_all
              /\ p_facets = fs.p_facets
              /\ p_ytd = fs.p_ytd
              /\ marker = fs.marker
    /\ result = NotAsked

\* Lines 85-93: _startup_regenerate_async(), called by the import.
StartupRegenerateAsync ==
    /\ arg.startup = "import"
    /\ arg' = IF arg.disable
              THEN Process(TRUE, arg.disable, "done")
              ELSE Process(arg.ready, arg.disable, "thread")
    /\ UNCHANGED <<now, csv, p_all, p_facets, p_ytd, marker, cache, cloud_run,
                   policy, run, result>>

\* The regeneration thread runs to its end.
RegenThread(recent, env) ==
    /\ arg.startup = "thread"
    /\ \E r \in {RunRegenOptimized(Dir, now, cloud_run, recent, env)} :
          /\ SetDir(r.fs)
          /\ run' = r.run
          /\ arg' = Process(r.ready, arg.disable, "done")
    /\ policy' = NotConsulted
    /\ UNCHANGED <<now, cache, cloud_run, result>>

\* Lines 102-109: GET /ready, served once the import is over.
Ready ==
    /\ arg.startup # "import"
    /\ result' = [asked |-> TRUE, status |-> IF arg.ready THEN 200 ELSE 503,
                  ready |-> arg.ready]
    /\ UNCHANGED <<now, csv, p_all, p_facets, p_ytd, marker, cache, cloud_run,
                   policy, run, arg>>

ReadyTick ==
    /\ now' \in { u \in Clock : Later(now, u) }
    /\ UNCHANGED <<csv, p_all, p_facets, p_ytd, marker, cache, cloud_run, policy,
                   run, arg, result>>

ReadyNext ==
    \/ StartupRegenerateAsync
    \/ \E recent \in BOOLEAN, env \in MainEnvs : RegenThread(recent, env)
    \/ Ready
    \/ ReadyTick

\* The import runs to its end and the thread, once started, is scheduled.
SpecReady ==
    /\ ReadyInit
    /\ [][ReadyNext]_vars
    /\ WF_vars(StartupRegenerateAsync)
    /\ WF_vars(\E recent \in BOOLEAN, env \in MainEnvs : RegenThread(recent, env))

(***************************************************************************)
(* The regeneration of the period step by step, by the startup thread      *)
(* (main, forced) and by an index request served meanwhile: each call of   *)
(* the pipeline is a step of its thread, and nothing orders the steps of   *)
(* one thread with those of the other.  arg is the two threads, each at    *)
(* the call it makes next ("idle", "fetch", "to_csv", "plot", "marker",    *)
(* "done"), with the table it parsed; result records which thread wrote    *)
(* the persisted table and the marker last.                                *)
(***************************************************************************)
Threads == {"startup", "index"}

Thread(pc, df, ok) == [pc |-> pc, df |-> df, ok |-> ok]

NoWriter == [csv |-> "none", marker |-> "none"]

OverlapInit ==
    /\ now \in { t \in Clock : t.day = 0 }
    /\ csv = NoCsv
    /\ p_all = FALSE
    /\ p_facets = FALSE
    /\ p_ytd = FALSE
    /\ marker = MarkerAbsent
    /\ cache = EmptyCache
    /\ cloud_run \in BOOLEAN
    /\ policy = NotConsulted
    /\ run = Idle
    /\ arg = [th \in Threads |-> Thread("idle", <<>>, FALSE)]
    /\ result = NoWriter

\* app.py lines 46-64 and main.py line 493: the thread regenerates unless, in
\* Cloud Run, the table exists and is recent.
StartupBegin(recent) ==
    /\ arg["startup"].pc = "idle"
    /\ arg' = [arg EXCEPT !["startup"] =
                  IF cloud_run /\ csv.exists /\ recent
                  THEN Thread("done", <<>>, TRUE)
                  ELSE Thread("fetch", <<>>, FALSE)]
    /\ UNCHANGED <<now, csv, p_all, p_facets, p_ytd, marker, cache, cloud_run,
                   policy, run, result>>

\* app.py lines 146-156: the request regenerates when the policy says so.
IndexBegin ==
    /\ arg["index"].pc = "idle"
    /\ LET r == ShouldRegenerate(marker, now, IndexFilesExist(Dir))
       IN  /\ policy' = Consulted(IndexFilesExist(Dir), r)
           /\ arg' = [arg EXCEPT !["index"] =
                         IF r.value THEN Thread("fetch", <<>>, FALSE)
                         ELSE Thread("done", <<>>, ~r.raised)]
    /\ UNCHANGED <<now, csv, p_all, p_facets, p_ytd, marker, cache, cloud_run,
                   run, result>>

\* main.py line 501 and app.py lines 157-167: fetch and parse (main also
\* summarizes); a failure ends the regeneration.
FetchAndParse(th, env) ==
    /\ arg[th].pc = "fetch"
    /\ LET f == IF th = "startup" THEN ProcessAndSummarizeData(env)
                ELSE IndexFetchAndParse(env)
       IN  arg' = [arg EXCEPT ![th] =
                      IF f.ok THEN Thread("to_csv", f.df, FALSE)
                      ELSE Thread("done", <<>>, FALSE)]
    /\ UNCHANGED <<now, csv, p_all, p_facets, p_ytd, marker, cache, cloud_run,
                   policy, run, result>>

\* main.py line 502 and app.py line 169.
WriteCsv(th) ==
    /\ arg[th].pc = "to_csv"
    /\ csv' = ToCsv(arg[th].df)
    /\ result' = [result EXCEPT !.csv = th]
    /\ arg' = [arg EXCEPT ![th].pc = "plot"]
    /\ UNCHANGED <<now, p_all, p_facets, p_ytd, marker, cache, cloud_run, policy, run>>

\* main.py lines 503-508 and app.py lines 170-176: plot_all, whose failure
\* ends the regeneration, then the year-to-date plot, whose failure does not.
PlotAll(th, plot, ytd) ==
    /\ arg[th].pc = "plot"
    /\ IF plot
       THEN /\ p_all' = TRUE
            /\ p_facets' = TRUE
            /\ p_ytd' = BuildAndPlotYtd(Dir, ytd).fs.p_ytd
            /\ arg' = [arg EXCEPT ![th].pc = "marker"]
       ELSE /\ UNCHANGED <<p_all, p_facets, p_ytd>>
            /\ arg' = [arg EXCEPT ![th] = Thread("done", arg[th].df, FALSE)]
    /\ UNCHANGED <<now, csv, marker, cache, cloud_run, policy, run, result>>

\* main.py line 509 and app.py line 177.
WriteMarker(th) ==
    /\ arg[th].pc = "marker"
    /\ marker' = WriteGeneratedMarker(now)
    /\ result' = [result EXCEPT !.marker = th]
    /\ arg' = [arg EXCEPT ![th] = Thread("done", arg[th].df, TRUE)]
    /\ UNCHANGED <<now, csv, p_all, p_facets, p_ytd, cache, cloud_run, policy, run>>

OverlapTick ==
    /\ now' \in { u \in Clock : Later(now, u) }
    /\ UNCHANGED <<csv, p_all, p_facets, p_ytd, marker, cache, cloud_run, policy,
                   run, arg, result>>

OverlapNext ==
    \/ \E recent \in BOOLEAN : StartupBegin(recent)
    \/ IndexBegin
    \/ \E th \in Threads, env \in MinimalEnvs : FetchAndParse(th, env)
    \/ \E th \in Threads : WriteCsv(th)
    \/ \E th \in Threads, plot \in BOOLEAN, ytd \in {"ok", "fetch_fail", "plot_fail"} :
          PlotAll(th, plot, ytd)
    \/ \E th \in Threads : WriteMarker(th)
    \/ OverlapTick

SpecOverlap == OverlapInit /\ [][OverlapNext]_vars

(***************************************************************************)
(* The parser on its own: parse_feed applied to every feed of at most      *)
(* MaxEntries entries, and build_ytd_df to that feed as the year's first   *)
(* month followed by the fetch of a second month.                          *)
(***************************************************************************)
\* The variables of the handlers, at rest.
AtRest ==
    /\ now = [day |-> 0, hour |-> 12, minute |-> 0]
    /\ csv = NoCsv
    /\ p_all = FALSE
    /\ p_facets = FALSE
    /\ p_ytd = FALSE
    /\ marker = MarkerAbsent
    /\ cache = EmptyCache
    /\ cloud_run = FALSE
    /\ policy = NotConsulted
    /\ run = Idle

handlerVars == <<now, csv, p_all, p_facets, p_ytd, marker, cache, cloud_run, policy, run>>

\* The entries of the feeds given to the parser: without properties, with
\* every kind of date text over two days, with and without a yield.
FeedDays == {1, 2}

ParserEntries ==
    { Entry(FALSE, [kind |-> "none", day |-> 0], [l \in Labels |-> <<>>]) }
    \cup { Entry(TRUE, d, [l \in Labels |-> <<>>]) : d \in NoDateText }
    \cup { Entry(TRUE, d, [l \in Labels |-> IF l = MATURITY_ORDER[1] THEN c ELSE <<>>]) :
              d \in DateTexts(FeedDays) \ NoDateText, c \in {<<>>, <<1>>} }

ParserFeeds == UNION { [1..n -> ParserEntries] : n \in 0..MaxEntries }

\* The fetch of the second month: it fails, or gives one entry of a later day.
NextMonthFetches ==
    { [ok |-> FALSE, feed |-> <<>>], [ok |-> TRUE, feed |-> <<DatedEntry(3, <<2>>)>>] }

NotCalled == [fn |-> "none", ok |-> FALSE, error |-> "", df |-> <<>>]

Returned(fn, r) == [fn |-> fn, ok |-> r.ok, error |-> r.error, df |-> r.df]

ParserInit ==
    /\ AtRest
    /\ arg \in [feed : ParserFeeds, next : NextMonthFetches]
    /\ result = NotCalled

CallParseFeed ==
    /\ result' = Returned("parse_feed", ParseFeed(arg.feed))
    /\ UNCHANGED <<handlerVars, arg>>

CallBuildYtdDf ==
    /\ result' = Returned("build_ytd_df",
                          BuildYtdDf(<<[ok |-> TRUE, feed |-> arg.feed], arg.next>>))
    /\ UNCHANGED <<handlerVars, arg>>

ParserNext == CallParseFeed \/ CallBuildYtdDf

SpecParser == ParserInit /\ [][ParserNext]_vars

(***************************************************************************)
(* The ranking on its own: summarize, and the best-overall maturity the    *)
(* web pages take from its metrics, applied to tables of one row and of    *)
(* three rows.                                                             *)
(***************************************************************************)
\* Three distinct yields: enough for three maturities to rank in any order.
RankedYields == {1, 2, 3}

\* The columns of the three-row tables: absent, flat, rising and falling
\* (on a line and off it), a weak rise, and too short for a trend.
ColumnShapes ==
    { <<NaN, NaN, NaN>>, <<2, 2, 2>>, <<1, 2, 3>>, <<3, 2, 1>>, <<1, 1, 2>>,
      <<2, 1, 1>>, <<1, 3, 2>>, <<NaN, NaN, 2>> }

\* The table of dates 1..n whose columns are the function `columns`.
TableOf(n, columns) ==
    Tuple([i \in 1..n |-> [Date |-> i, y |-> [l \in Labels |-> columns[l][i]]]])

RankedTables ==
    { TableOf(1, columns) : columns \in [Labels -> { <<v>> : v \in {NaN} \cup RankedYields }] }
    \cup { TableOf(3, columns) : columns \in [Labels -> ColumnShapes] }

NotSummarized ==
    [fn |-> "none", ok |-> FALSE, metrics |-> <<>>, best_overall |-> "", web_best |-> ""]

RankingInit ==
    /\ AtRest
    /\ arg \in RankedTables
    /\ result = NotSummarized

CallSummarize ==
    /\ \E s \in {Summarize(arg)} :
          result' = [fn |-> "summarize", ok |-> s.ok, metrics |-> s.metrics,
                     best_overall |-> s.best_overall, web_best |-> ""]
    /\ UNCHANGED <<handlerVars, arg>>

\* The best-overall maturity of a page (index: best_overall, invest:
\* best_maturity) beside the summary text of the same summarize call.
RenderBestOverall(page) ==
    /\ \E s \in {Summarize(arg)} :
          /\ s.ok
          /\ \E best \in WebBestOverall(s.metrics) :
                result' = [fn |-> page, ok |-> TRUE, metrics |-> s.metrics,
                           best_overall |-> s.best_overall, web_best |-> best]
    /\ UNCHANGED <<handlerVars, arg>>

RankingNext ==
    \/ CallSummarize
    \/ \E page \in {"index", "invest"} : RenderBestOverall(page)

SpecRanking == RankingInit /\ [][RankingNext]_vars

(***************************************************************************)
(* Properties of the freshness policy (specification SpecPolicy).          *)
(***************************************************************************)
MarkerIsToday == marker.kind = "date" /\ marker.ymd = now.day

\* C1: should_regenerate returns true whenever files_exist is false, for
\* every marker file (absent, unreadable, dated today, dated another day) and
\* every time of day.
C1_MissingArtifactsRegenerate ==
    (policy.called /\ ~policy.files_exist) => (policy.value /\ ~policy.raised)

C1_Witness ==
    /\ policy.called /\ ~policy.files_exist /\ policy.value
    /\ MarkerIsToday
    /\ ~TimeGE(now, 12, 0)

\* C2: with the artifacts present and the marker dated today (US Eastern),
\* should_regenerate returns false at every time of day, at and after 12:00
\* included.
C2_GeneratedTodaySkips ==
    (policy.called /\ policy.files_exist /\ MarkerIsToday)
        => (~policy.value /\ ~policy.raised)

C2_Witness ==
    /\ policy.called /\ policy.files_exist /\ MarkerIsToday
    /\ TimeGE(now, 12, 0)
    /\ ~policy.value

\* C3: with the artifacts present and the marker absent, unreadable or dated
\* another day, should_regenerate returns true exactly when the US Eastern
\* time of day is at or after 12:00 (false at 11:59, true at 12:00), and
\* reading the marker never raises.
C3_NotYetTodayRegeneratesFromNoon ==
    (policy.called /\ policy.files_exist /\ ~MarkerIsToday)
        => /\ ~policy.raised
           /\ policy.value <=> TimeGE(now, 12, 0)
           /\ (now.hour = 11 /\ now.minute = 59) => ~policy.value
           /\ (now.hour = 12 /\ now.minute = 0) => policy.value

C3_Witness ==
    /\ policy.called /\ policy.files_exist
    /\ marker.kind = "garbage"
    /\ now.hour = 12 /\ now.minute = 0
    /\ policy.value /\ ~policy.raised

(***************************************************************************)
(* Properties of the orchestrator and the web handlers (specification      *)
(* Spec).  They read the record of the last run.                           *)
(***************************************************************************)
Has(trace, call) == \E i \in DOMAIN trace : trace[i] = call

Before(trace, a, b) ==
    \E i \in DOMAIN trace, j \in DOMAIN trace : i < j /\ trace[i] = a /\ trace[j] = b

\* The fetches of the period's feed for the table (not the year-to-date ones).
FetchCount(trace) ==
    Cardinality({ i \in DOMAIN trace : trace[i] \in {"fetch_xml", "fetch_xml_raises"} })

\* No fetch of the period's feed succeeded.
FetchFailed(trace) == Has(trace, "fetch_xml_raises") /\ ~Has(trace, "fetch_xml")

ParseFailed(trace) == Has(trace, "parse_feed_raises")

WroteMarker(trace) == Has(trace, "write_generated_marker")

YtdBuilt(trace) ==
    \E i \in DOMAIN trace :
        trace[i] \in {"ytd_fetch_xml", "ytd_fetch_xml_raises", "ytd_parse_feed",
                      "plot_ytd", "plot_ytd_raises"}

YtdFailed(trace) == Has(trace, "ytd_fetch_xml_raises") \/ Has(trace, "plot_ytd_raises")

UsableTable(df) == df # <<>> /\ Summarize(df).ok

\* C4: in every caller that regenerates (main, index, invest, ladder) the
\* marker is written only after the fetch, the parse, the write of the
\* persisted table and the ranking of the same run have succeeded, and a run
\* in which one of these steps fails leaves the marker as it was.
C4_MarkerOnlyAfterFullSuccess ==
    [][ run'.caller \in {"main", "index", "invest", "ladder"} =>
          /\ (marker' # marker \/ WroteMarker(run'.trace)) =>
                \A step \in {"fetch_xml", "parse_feed", "to_csv", "summarize"} :
                    Before(run'.trace, step, "write_generated_marker")
          /\ (\/ FetchFailed(run'.trace)
              \/ ParseFailed(run'.trace)
              \/ Has(run'.trace, "summarize_raises")) =>
                (marker' = marker /\ ~WroteMarker(run'.trace)) ]_vars

\* C5: whenever a regeneration attempt fails (fetch error, timeout or parse
\* error) and a persisted table exists, the operation does not fail and
\* returns the metrics of the stale persisted table, in main and in index.
\* (A failed fetch or parse leaves the persisted table untouched, so the
\* table of the state is the one that existed before the run.)
C5_StaleFallback ==
    ( /\ run.caller \in {"main", "index"}
      /\ (FetchFailed(run.trace) \/ ParseFailed(run.trace))
      /\ csv.exists
      /\ Summarize(ReadCsv(csv)).ok )
        => /\ ~run.raised
           /\ run.outcome \in {0, 200}
           /\ run.metrics = Summarize(ReadCsv(csv)).metrics

\* C6: after a run of main that regenerated the period and wrote its marker,
\* a later non-forced run of main on the same US Eastern date performs no
\* fetch and no regeneration, whether or not the year-to-date plot was
\* produced by the first run.  (Stated for the run that follows at once: the
\* clock has not moved.)
C6_IdempotentWithinDay ==
    [][ ( /\ run.caller = "main"
          /\ run.status = "Generated new outputs"
          /\ WroteMarker(run.trace)
          /\ run'.caller = "main"
          /\ ~run'.force )
            => /\ FetchCount(run'.trace) = 0
               /\ ~Has(run'.trace, "to_csv")
               /\ ~WroteMarker(run'.trace) ]_vars

\* C7: with the force flag main never consults the freshness policy and
\* always attempts a regeneration: the first thing it does is fetch the feed,
\* whatever the artifacts and the marker.
C7_ForceAlwaysRegenerates ==
    (run.caller = "main" /\ run.force)
        => /\ ~policy.called
           /\ Len(run.trace) > 0
           /\ run.trace[1] \in {"fetch_xml", "fetch_xml_raises"}

\* A forced run whose fetch failed leaves the directory as it found it: every
\* artifact present and the marker dated today.
C7_Witness ==
    /\ run.caller = "main" /\ run.force
    /\ run.trace[1] = "fetch_xml_raises"
    /\ csv.exists /\ p_all /\ p_facets /\ p_ytd
    /\ MarkerIsToday

\* C8: when the fetch fails and no persisted table exists, main ends with the
\* outcome 2 after a single attempt and writes no marker and no summary; main
\* returns 0 only in runs that obtained a usable table; and every run that
\* obtains no usable table ends with that outcome 2.
C8_FatalExactlyWithoutTable ==
    run.caller = "main" =>
        /\ (FetchFailed(run.trace) /\ ~csv.exists) =>
              /\ run.outcome = 2 /\ ~run.raised
              /\ FetchCount(run.trace) = 1
              /\ ~WroteMarker(run.trace)
              /\ ~Has(run.trace, "write_summary")
        /\ run.outcome = 0 => UsableTable(run.df)
        /\ ~UsableTable(run.df) => (run.outcome = 2 /\ ~run.raised)

\* C9 as stated: when the policy says regeneration is not needed, main and
\* index perform no network fetch and never invoke the feed parser; they load
\* the persisted table, recompute the ranking and leave the table and the
\* marker unchanged.
C9_NoFetchWhenFresh ==
    (run.caller \in {"main", "index"} /\ policy.called /\ ~policy.value)
        => /\ FetchCount(run.trace) = 0
           /\ ~Has(run.trace, "ytd_fetch_xml") /\ ~Has(run.trace, "ytd_fetch_xml_raises")
           /\ ~Has(run.trace, "parse_feed") /\ ~Has(run.trace, "parse_feed_raises")
           /\ ~Has(run.trace, "ytd_parse_feed")
           /\ Has(run.trace, "read_csv")
           /\ run.df = ReadCsv(csv)
           /\ ~Has(run.trace, "to_csv") /\ ~WroteMarker(run.trace)

\* C9 as amended: when the policy says regeneration is not needed, main and
\* index never fetch or parse the feed to regenerate the table: they load the
\* persisted table, recompute the ranking from it and leave the table and the
\* marker unchanged.  The only fetch and parse such a call can make is index's
\* rebuild of the missing year-to-date plot outside Cloud Run.
C9_NoRegenerationWhenFresh ==
    [][ (run'.caller \in {"main", "index"} /\ policy'.called /\ ~policy'.value) =>
          /\ csv' = csv /\ marker' = marker
          /\ FetchCount(run'.trace) = 0
          /\ ~Has(run'.trace, "parse_feed") /\ ~Has(run'.trace, "parse_feed_raises")
          /\ ~Has(run'.trace, "to_csv") /\ ~WroteMarker(run'.trace)
          /\ run'.trace[1] = "read_csv"
          /\ run'.df = ReadCsv(csv)
          /\ IF Summarize(run'.df).ok
             THEN Has(run'.trace, "summarize") /\ run'.metrics = Summarize(run'.df).metrics
             ELSE run'.raised
          /\ YtdBuilt(run'.trace) => (run'.caller = "index" /\ ~cloud_run /\ ~p_ytd) ]_vars

C9_Witness ==
    /\ run.caller = "index" /\ policy.called /\ ~policy.value
    /\ Has(run.trace, "ytd_fetch_xml") /\ Has(run.trace, "ytd_parse_feed")
    /\ run.outcome = 200

\* C10: a failure of the optional year-to-date block during a regeneration
\* whose primary steps succeed does not abort the run: the table is
\* persisted, the marker is written, and main ends with 0 and "Generated new
\* outputs".
C10_YtdFailureNotFatal ==
    (run.caller \in {"main", "index"} /\ Has(run.trace, "plot_all") /\ YtdFailed(run.trace))
        => /\ csv = ToCsv(run.df)
           /\ WroteMarker(run.trace)
           /\ marker = WriteGeneratedMarker(now)
           /\ run.caller = "main" =>
                 /\ run.outcome = 0 /\ ~run.raised
                 /\ run.status = "Generated new outputs"

C10_Witness ==
    /\ run.caller = "main"
    /\ Has(run.trace, "plot_all") /\ Has(run.trace, "plot_ytd_raises")
    /\ ~p_ytd
    /\ run.outcome = 0 /\ run.status = "Generated new outputs"

(***************************************************************************)
(* Properties of the parser (specification SpecParser).                    *)
(***************************************************************************)
\* The entries that have a date the parser can read.
DatedEntries(feed) ==
    SelectSeq(feed, LAMBDA e : e.props /\ e.date.kind \in {"iso", "prefixed"})

\* C11: parse_feed skips silently every entry without a parseable date (date
\* field missing, empty, or not a valid ISO date): such an entry gives no row
\* and raises nothing, and the other entries are still returned (one row per
\* dated entry; no entry with a date is the only failure, "No entries parsed").
C11_UndatedEntriesSkipped ==
    result.fn = "parse_feed" =>
        LET dated == DatedEntries(arg.feed)
        IN  /\ result.error # "ValueError"
            /\ Len(dated) > 0 =>
                  /\ result.ok
                  /\ Len(result.df) = Len(dated)
                  /\ \A i \in DOMAIN dated : \E j \in DOMAIN result.df :
                         result.df[j].Date = dated[i].date.day
            /\ Len(dated) = 0 => (~result.ok /\ result.error = "RuntimeError")

\* C12: in every table returned by parse_feed and by build_ytd_df no two rows
\* carry the same date, also when the feed holds two entries of one date.
C12_DatesUnique ==
    (result.fn \in {"parse_feed", "build_ytd_df"} /\ result.ok) =>
        \A i \in DOMAIN result.df, j \in DOMAIN result.df :
            i # j => result.df[i].Date # result.df[j].Date

(***************************************************************************)
(* Properties of the ranking (specification SpecRanking).                  *)
(***************************************************************************)
Summarized == result.fn = "summarize" /\ result.ok

\* The number of rows of the metrics table whose value of `column` is
\* strictly greater than that of row i.
Greater(metrics, column, i) ==
    Cardinality({ j \in DOMAIN metrics : RatLess(metrics[i][column], metrics[j][column]) })

\* C13: each of the three descending ranks of summarize (by current yield,
\* by intensity, by value score) is 1 plus the number of rows with a strictly
\* greater value: equal values get the same rank, the best of the tied group.
C13_RankIsMinOfTies ==
    Summarized =>
        \A i \in DOMAIN result.metrics :
            /\ result.metrics[i].RankYield = 1 + Greater(result.metrics, "CurrentYieldPct", i)
            /\ result.metrics[i].RankIntensity
                  = 1 + Greater(result.metrics, "IntensitySquared", i)
            /\ result.metrics[i].RankValue = 1 + Greater(result.metrics, "ValueScore", i)

\* Two maturities tie for the first place by current yield and a third one
\* comes after them.
C13_Witness ==
    /\ Summarized
    /\ Len(result.metrics) = 3
    /\ \E i, j, k \in DOMAIN result.metrics :
          /\ i # j
          /\ RatEq(result.metrics[i].CurrentYieldPct, result.metrics[j].CurrentYieldPct)
          /\ RatLess(result.metrics[k].CurrentYieldPct, result.metrics[i].CurrentYieldPct)
          /\ result.metrics[i].RankYield = 1 /\ result.metrics[j].RankYield = 1
          /\ result.metrics[k].RankYield = 3

\* The labels in ascending lexicographic order, as the claim gives it.
LexicographicOrder == <<"10Y", "1M", "1Y">>

LexicographicIndex(label) ==
    CHOOSE i \in DOMAIN LexicographicOrder : LexicographicOrder[i] = label

\* C14: the composite rank of a maturity is the mean of its three ranks, and
\* the best-overall maturity named by summarize is the row of lowest
\* composite rank, ties broken by the label in ascending lexicographic order
\* ("10Y" before "1M" before "1Y").
C14_BestOverallLexicographicTie ==
    Summarized =>
        /\ \A i \in DOMAIN result.metrics :
              LET m == result.metrics[i]
              IN  m.CompositeRank.n * 3
                    = (m.RankYield + m.RankIntensity + m.RankValue) * m.CompositeRank.d
        /\ \E i \in DOMAIN result.metrics :
              /\ result.metrics[i].Maturity = result.best_overall
              /\ \A j \in DOMAIN result.metrics :
                    \/ RatLess(result.metrics[i].CompositeRank, result.metrics[j].CompositeRank)
                    \/ /\ RatEq(result.metrics[i].CompositeRank,
                                result.metrics[j].CompositeRank)
                       /\ LexicographicIndex(result.metrics[i].Maturity)
                             <= LexicographicIndex(result.metrics[j].Maturity)

\* "10Y" and "1M" share the lowest composite rank and "10Y" is named.
C14_Witness ==
    /\ Summarized
    /\ result.best_overall = "10Y"
    /\ \E i, j \in DOMAIN result.metrics :
          /\ result.metrics[i].Maturity = "10Y" /\ result.metrics[j].Maturity = "1M"
          /\ RatEq(result.metrics[i].CompositeRank, result.metrics[j].CompositeRank)
          /\ \A k \in DOMAIN result.metrics :
                ~RatLess(result.metrics[k].CompositeRank, result.metrics[i].CompositeRank)

\* adjPct = trendBpsPerMonth * max(R2, 0.3) / 100
AdjPct(m) == RatMul(RatMul(m.TrendBpsPerMonth, RatMax(m.TrendR2, Rat(3, 10))), Rat(1, 100))

\* C15: the trend adjustment penalizes rising yields and rewards falling
\* ones: a rising trend (adjPct > 0) gives valueScore = current - 0.5 * adjPct,
\* a falling trend (adjPct < 0) gives a valueScore above current by
\* 0.25 * |adjPct|, and no trend gives valueScore = current.
C15_TrendAdjustmentAsymmetric ==
    Summarized =>
        \A i \in DOMAIN result.metrics :
            LET m == result.metrics[i]
                adjPct == AdjPct(m)
            IN  /\ (m.HasTrend /\ RatLess(Zero, adjPct)) =>
                      RatEq(m.ValueScore,
                            RatAdd(m.CurrentYieldPct, RatMul(Rat(-1, 2), adjPct)))
                /\ (m.HasTrend /\ RatLess(adjPct, Zero)) =>
                      /\ RatLess(m.CurrentYieldPct, m.ValueScore)
                      /\ RatEq(m.ValueScore,
                               RatAdd(m.CurrentYieldPct, RatMul(Rat(-1, 4), adjPct)))
                /\ (~m.HasTrend \/ RatEq(adjPct, Zero)) =>
                      RatEq(m.ValueScore, m.CurrentYieldPct)

\* C20: the best-overall maturity of the web pages (index, invest: first row
\* by composite rank alone) is the one summarize names in the summary text
\* (first row by composite rank, then label), ties on the lowest composite
\* rank included.
C20_WebBestIsSummaryBest ==
    (result.fn \in {"index", "invest"} /\ result.ok) => result.web_best = result.best_overall

(***************************************************************************)
(* Properties of the validation of the arguments (specification            *)
(* SpecRequests).                                                          *)
(***************************************************************************)
\* The month argument is given and is not exactly six digits.
InvalidMonth(month) ==
    Len(month) > 0 /\ ~(Len(month) = 6 /\ \A i \in DOMAIN month : month[i] \in 48..57)

\* The amount is not a number, or lies outside MinAmount..MaxAmount.
InvalidAmount(amount) ==
    ~amount.numeric \/ amount.nan \/ amount.value < MinAmount \/ amount.value > MaxAmount

PipelineWork(trace) ==
    \E i \in DOMAIN trace :
        trace[i] \in {"fetch_xml", "fetch_xml_raises", "parse_feed", "parse_feed_raises",
                      "ytd_fetch_xml", "ytd_fetch_xml_raises", "ytd_parse_feed",
                      "to_csv", "write_generated_marker"}

\* C16: an invocation (main, index, invest, ladder) whose period argument is
\* not exactly six digits, or whose amount is not a number or is outside
\* 500..10,000,000, is rejected with a validation error and performs no
\* fetch, no parse, no write of the persisted table and no write of the
\* marker.
C16_ValidationBeforePipeline ==
    ( \/ (arg.handler \in {"main", "index", "invest", "ladder"} /\ InvalidMonth(arg.month))
      \/ (arg.handler \in {"invest", "ladder"} /\ InvalidAmount(arg.amount)) )
        => /\ result.raised \/ result.error # ""
           /\ ~PipelineWork(run.trace)

(***************************************************************************)
(* Properties of the response cache (specification SpecCache).             *)
(***************************************************************************)
CacheKeys(c) == { c[i].key : i \in DOMAIN c }

CacheItems(c) == { c[i] : i \in DOMAIN c }

\* C18: after every completed index request the cache holds at most 10
\* entries; when an insertion makes it 11, exactly one entry is evicted, it
\* has the oldest timestamp of the 11 and it is never the one just inserted.
C18_CacheBounded ==
    /\ Len(cache) <= 10
    /\ [][ /\ Len(cache') <= 10
           /\ Has(run'.trace, "cache_store") =>
                 \E e \in CacheItems(cache') : e.timestamp = Seconds(now)
           /\ Has(run'.trace, "cache_evict") =>
                 \E new \in CacheItems(cache'), old \in CacheItems(cache) :
                     /\ new.key \notin CacheKeys(cache)
                     /\ old.key \notin CacheKeys(cache')
                     /\ new.key # old.key
                     /\ CacheItems(cache') = (CacheItems(cache) \ {old}) \cup {new}
                     /\ \A e \in CacheItems(cache) \cup {new} :
                           old.timestamp <= e.timestamp ]_vars

\* An eviction among entries of different ages: the cache stays at 10 and
\* the entry just stored is in it.
C18_Witness ==
    /\ run.caller = "index" /\ Has(run.trace, "cache_evict")
    /\ Len(cache) = 10
    /\ cache[Len(cache)].key = CacheKey(Periods[arg])
    /\ cache[Len(cache)].timestamp = Seconds(now)
    /\ cache[1].timestamp = Seconds(now)
    /\ \E i \in DOMAIN cache : cache[i].timestamp < Seconds(now)

(***************************************************************************)
(* Properties of the readiness flag (specification SpecReady).             *)
(***************************************************************************)
\* C19: the readiness flag starts false; it is true at the end of every
\* execution of the startup task (regeneration succeeded, failed with an
\* error or a non-zero outcome, skipped for recent data, or disabled), which
\* every execution reaches; once true it is never false again; /ready
\* answers 503 while the flag is false and 200 once it is true.
C19_ReadinessSignal ==
    /\ ~arg.ready
    /\ [](arg.startup = "done" => arg.ready)
    /\ <>(arg.startup = "done")
    /\ [][arg.ready => arg'.ready]_vars
    /\ [][result' # result =>
            result'.status = (IF arg.ready THEN 200 ELSE 503)]_vars
    /\ [](result.asked /\ result.status = 200 => arg.ready)

\* The regeneration failed (an error or outcome 2), the flag is set and
\* /ready has answered 200 after having answered 503.
C19_Witness ==
    /\ arg.startup = "done" /\ ~arg.disable /\ arg.ready
    /\ run.caller = "main" /\ (run.raised \/ run.outcome = 2)
    /\ result.asked /\ result.status = 200

(***************************************************************************)
(* Properties of overlapping regenerations (specification SpecOverlap).    *)
(***************************************************************************)
Regenerating(th) == arg[th].pc \in {"fetch", "to_csv", "plot", "marker"}

\* C17: at most one regeneration pipeline of the period executes at any
\* time (the startup thread and an index request never overlap), and when
\* both the persisted table and the marker have been written they are the
\* output of one and the same run.
C17_OneRegenerationAtATime ==
    /\ ~(Regenerating("startup") /\ Regenerating("index"))
    /\ (result.csv # "none" /\ result.marker # "none") => result.csv = result.marker

(***************************************************************************)
(* The response cache against the freshness policy (specification Spec).   *)
(***************************************************************************)
\* What should_regenerate says of the directory at the time of a request.
PolicyRequiresRegeneration ==
    ShouldRegenerate(marker, now, IndexFilesExist(Dir)).value

\* C21: an index request made when the freshness policy requires the
\* regeneration of the period (for the artifacts, the marker and the time
\* of the request) attempts a regeneration: it fetches the feed and is not
\* answered from the response cache.
C21_CacheNeverHidesStaleness ==
    [][ (run'.caller = "index" /\ PolicyRequiresRegeneration) =>
            /\ ~Has(run'.trace, "cache_hit")
            /\ FetchCount(run'.trace) >= 1 ]_vars

(***************************************************************************)
(* Properties of the cache shared by concurrent requests (SpecShared).     *)
(***************************************************************************)
\* C22: under any interleaving of concurrent index requests on the shared
\* cache, no request deletes a key that another request has already removed
\* (the deletion of line 237 never fails), and once all requests have
\* completed the cache holds at most 10 entries.
C22_ConcurrentEvictionSafe ==
    /\ ~result.key_error
    /\ (\A th \in Requests : arg[th].pc = "idle") => Len(cache) <= 10

====
